---- MODULE Spec2Model ----
(***************************************************************************)
(* clean_engine.py: removes a fixed list of Go method definitions from a   *)
(* file, in place.  The program reads the file into a list of lines, scans *)
(* the lines once with a skip flag and a brace-depth counter, and writes   *)
(* the retained lines back to the same path.                               *)
(*                                                                         *)
(* A line is a sequence of one-character strings.  The 17 target strings   *)
(* of the program are represented by two short ones that keep what the     *)
(* scan depends on: they are non-empty, begin and end with a character     *)
(* that is not whitespace, contain no brace and share a prefix.            *)
(***************************************************************************)
EXTENDS Integers, Sequences, FiniteSets, TLC

\* Longest input file, in lines.
MaxLines == 4

\* Characters removed by str.strip() with no argument.
Whitespace == {" ", "\n", "\t"}

\* The list of functions to remove.
functions_to_remove ==
    { <<"f", "a">>, <<"f", "b">> }

\* The lines an input file is made of, each with its terminator.
LinePool ==
    { <<" ", "x", "\n">>,              \* an indented statement
      <<"f", "a", "{", "\n">>,         \* targeted signature, brace on the line
      <<"f", "b", "\n">>,              \* targeted signature, no brace
      <<"f", "a", "{", "}", "\n">>,    \* targeted function on one line
      <<"f", "{", "}", "\n">>,         \* function that is not targeted
      <<"{", "\n">>,
      <<"}", "\n">>,
      <<"}", "{", "\n">> }             \* closes and opens: delta 0

RECURSIVE SeqsUpTo(_)
SeqsUpTo(n) ==
    IF n = 0 THEN { <<>> }
    ELSE LET shorter == SeqsUpTo(n - 1)
         IN  shorter \cup { Append(s, l) : s \in { t \in shorter : Len(t) = n - 1 },
                                           l \in LinePool }

\* What a file at the path may hold before the run.
Contents == SeqsUpTo(MaxLines)

----------------------------------------------------------------------------
\* str.strip(): drop leading and trailing whitespace.
RECURSIVE lstrip(_)
lstrip(s) ==
    IF s # <<>> /\ Head(s) \in Whitespace THEN lstrip(Tail(s)) ELSE s

RECURSIVE rstrip(_)
rstrip(s) ==
    IF s # <<>> /\ s[Len(s)] \in Whitespace
    THEN rstrip(SubSeq(s, 1, Len(s) - 1))
    ELSE s

strip(s) == rstrip(lstrip(s))

\* `sub in s` on strings: sub occurs in s as a contiguous run.
Contains(sub, s) ==
    \E k \in 1..(Len(s) - Len(sub) + 1) : SubSeq(s, k, k + Len(sub) - 1) = sub

\* str.count(c) for a one-character c.
count(s, c) == Cardinality({ k \in DOMAIN s : s[k] = c })

\* any(func in stripped for func in functions_to_remove)
MatchesFirstChar(line) ==
    \E func \in functions_to_remove : Contains(<<Head(func)>>, strip(line))

MatchesExact(line) ==
    \E func \in functions_to_remove : func = strip(line)

Matches(line) ==
    \E func \in functions_to_remove : Contains(func, strip(line))

\* line.count('{') - line.count('}')
BraceDelta(line) == count(line, "{") - count(line, "}")

\* depth = line.count('{') - line.count('}') on the trigger line
TriggerDepthZero(line) == 0

TriggerDepth(line) == BraceDelta(line)

\* depth += line.count('{') - line.count('}') on a skipped line
SkipDepth(d, line) == d + BraceDelta(line)

\* if depth == 0: skip = False
EndsSkipNonPositive(d) == d <= 0

EndsSkip(d) == d = 0

\* output_lines.append(line)
RetainStripped(out, line) == Append(out, strip(line))

RetainTwice(out, line) == Append(Append(out, line), line)

Retain(out, line) == Append(out, line)

\* if len(sys.argv) < 2
ArgMissingOffByOne(n) == n < 1

ArgMissing(n) == n < 2

\* The scan loop as a function of the list of lines: the output_lines left
\* by the loop started at line k with the given skip, depth and output.
RECURSIVE ScanFrom(_, _, _, _, _)
ScanFrom(ls, k, sk, d, out) ==
    IF k > Len(ls) THEN out
    ELSE LET line == ls[k]
         IN  IF Matches(line)
             THEN ScanFrom(ls, k + 1, TRUE, TriggerDepth(line), out)
             ELSE IF sk
             THEN LET d2 == SkipDepth(d, line)
                  IN  ScanFrom(ls, k + 1, ~EndsSkip(d2), d2, out)
             ELSE ScanFrom(ls, k + 1, sk, d, Retain(out, line))

\* skip = False; depth = 0; output_lines = []; the loop over all of ls.
CleanLines(ls) == ScanFrom(ls, 1, FALSE, 0, <<>>)

----------------------------------------------------------------------------
VARIABLES
    pc,            \* the statement the program is at
    argc,          \* len(sys.argv)
    exists,        \* whether a file exists at the path
    disk,          \* the lines of the file at the path (none when missing)
    io,            \* the opens performed on the path, in order
    lines,         \* f.readlines()
    i,             \* number of lines the for loop has consumed
    skip,
    depth,
    output_lines,
    hist,          \* hist[k]: skip, depth, len(output_lines) after line k
    stdout,
    error,         \* the uncaught exception and the line that raised it
    exit_code      \* process exit status, -1 while running

vars == <<pc, argc, exists, disk, io, lines, i, skip, depth, output_lines, hist,
          stdout, error, exit_code>>

scanVars == <<lines, i, skip, depth, output_lines, hist>>

\* No exception has been raised.
NoError == [exc |-> "none", line |-> 0]

Init ==
    /\ pc = "argcheck"
    /\ argc \in 1..2
    /\ exists \in BOOLEAN
    /\ disk \in (IF exists THEN Contents ELSE { <<>> })
    /\ io = <<>>
    /\ lines = <<>>
    /\ i = 0
    /\ skip = FALSE
    /\ depth = 0
    /\ output_lines = <<>>
    /\ hist = <<>>
    /\ stdout = <<>>
    /\ error = NoError
    /\ exit_code = -1

\* An uncaught exception: traceback, exit status 1.
Raise(e, ln) ==
    /\ error' = [exc |-> e, line |-> ln]
    /\ exit_code' = 1
    /\ pc' = "exited"

\* if len(sys.argv) < 2: print usage, sys.exit(1)
ArgCheckUsage ==
    /\ pc = "argcheck"
    /\ ArgMissing(argc)
    /\ stdout' = Append(stdout, "Usage: python clean_engine.py <filename>")
    /\ exit_code' = 1
    /\ pc' = "exited"
    /\ UNCHANGED <<argc, exists, disk, io, scanVars, error>>

\* filename = sys.argv[1]
ArgCheckOk ==
    /\ pc = "argcheck"
    /\ ~ArgMissing(argc)
    /\ pc' = "open_r"
    /\ UNCHANGED <<argc, exists, disk, io, scanVars, stdout, error, exit_code>>

\* open(filename, 'r') succeeds
OpenReadOk ==
    /\ pc = "open_r"
    /\ exists
    /\ io' = Append(io, "r")
    /\ pc' = "readlines"
    /\ UNCHANGED <<argc, exists, disk, scanVars, stdout, error, exit_code>>

\* open(filename, 'r') raises: the file is missing or may not be read
OpenReadFailSwallowed ==
    /\ pc = "open_r"
    /\ error' = [exc |-> IF ~exists THEN "FileNotFoundError"
                                     ELSE "PermissionError",
                  line |-> 30]
    /\ pc' = "scan"
    /\ UNCHANGED <<argc, exists, disk, io, scanVars, stdout, exit_code>>

OpenReadFail ==
    /\ pc = "open_r"
    /\ Raise(IF ~exists THEN "FileNotFoundError" ELSE "PermissionError", 30)
    /\ UNCHANGED <<argc, exists, disk, io, scanVars, stdout>>

\* lines = f.readlines(); skip = False; depth = 0; output_lines = []
ReadLinesOk ==
    /\ pc = "readlines"
    /\ lines' = disk
    /\ skip' = FALSE
    /\ depth' = 0
    /\ output_lines' = <<>>
    /\ i' = 0
    /\ hist' = <<>>
    /\ pc' = "scan"
    /\ UNCHANGED <<argc, exists, disk, io, stdout, error, exit_code>>

\* f.readlines() raises: I/O or decoding error
ReadLinesFail ==
    /\ pc = "readlines"
    /\ \E e \in {"OSError", "UnicodeDecodeError"} : Raise(e, 31)
    /\ UNCHANGED <<argc, exists, disk, io, scanVars, stdout>>

\* One iteration of `for line in lines`.
ScanLineGuarded ==
    /\ pc = "scan"
    /\ i < Len(lines)
    /\ LET line == lines[i + 1]
       IN  /\ IF ~skip /\ Matches(line)
              THEN /\ skip' = TRUE
                   /\ depth' = TriggerDepth(line)
                   /\ output_lines' = output_lines
              ELSE IF skip
              THEN /\ depth' = SkipDepth(depth, line)
                   /\ skip' = ~EndsSkip(depth')
                   /\ output_lines' = output_lines
              ELSE /\ output_lines' = Retain(output_lines, line)
                   /\ UNCHANGED <<skip, depth>>
    /\ i' = i + 1
    /\ hist' = Append(hist, [skip |-> skip', depth |-> depth',
                             out |-> Len(output_lines')])
    /\ UNCHANGED <<pc, argc, exists, disk, io, lines, stdout, error, exit_code>>

ScanLine ==
    /\ pc = "scan"
    /\ i < Len(lines)
    /\ LET line == lines[i + 1]
       IN  /\ IF Matches(line)
              THEN /\ skip' = TRUE
                   /\ depth' = TriggerDepth(line)
                   /\ output_lines' = output_lines
              ELSE IF skip
              THEN /\ depth' = SkipDepth(depth, line)
                   /\ skip' = ~EndsSkip(depth')
                   /\ output_lines' = output_lines
              ELSE /\ output_lines' = Retain(output_lines, line)
                   /\ UNCHANGED <<skip, depth>>
    /\ i' = i + 1
    /\ hist' = Append(hist, [skip |-> skip', depth |-> depth',
                             out |-> Len(output_lines')])
    /\ UNCHANGED <<pc, argc, exists, disk, io, lines, stdout, error, exit_code>>

\* The for loop is exhausted.
ScanDoneEarly ==
    /\ pc = "scan"
    /\ i <= Len(lines)
    /\ pc' = "open_w"
    /\ UNCHANGED <<argc, exists, disk, io, scanVars, stdout, error, exit_code>>

ScanDone ==
    /\ pc = "scan"
    /\ i = Len(lines)
    /\ pc' = "open_w"
    /\ UNCHANGED <<argc, exists, disk, io, scanVars, stdout, error, exit_code>>

\* open(filename, 'w') succeeds: the file is truncated (created if missing)
OpenWriteOk ==
    /\ pc = "open_w"
    /\ exists' = TRUE
    /\ disk' = <<>>
    /\ io' = Append(io, "w")
    /\ pc' = "writelines"
    /\ UNCHANGED <<argc, scanVars, stdout, error, exit_code>>

\* open(filename, 'w') raises: no write permission
OpenWriteFail ==
    /\ pc = "open_w"
    /\ Raise("PermissionError", 57)
    /\ UNCHANGED <<argc, exists, disk, io, scanVars, stdout>>

\* f.writelines(output_lines) and close
WriteLinesOk ==
    /\ pc = "writelines"
    /\ disk' = output_lines
    /\ pc' = "print"
    /\ UNCHANGED <<argc, exists, io, scanVars, stdout, error, exit_code>>

\* the write fails part-way: a prefix of the output is on disk
WriteLinesFail ==
    /\ pc = "writelines"
    /\ \E k \in 0..Len(output_lines) : disk' = SubSeq(output_lines, 1, k)
    /\ Raise("OSError", 58)
    /\ UNCHANGED <<argc, exists, io, scanVars, stdout>>

\* print(f"Cleaned {filename}")
PrintCleaned ==
    /\ pc = "print"
    /\ stdout' = Append(stdout, "Cleaned")
    /\ exit_code' = 0
    /\ pc' = "exited"
    /\ UNCHANGED <<argc, exists, disk, io, scanVars, error>>

Next ==
    \/ ArgCheckUsage
    \/ ArgCheckOk
    \/ OpenReadOk
    \/ OpenReadFail
    \/ ReadLinesOk
    \/ ReadLinesFail
    \/ ScanLine
    \/ ScanDone
    \/ OpenWriteOk
    \/ OpenWriteFail
    \/ WriteLinesOk
    \/ WriteLinesFail
    \/ PrintCleaned

Spec == Init /\ [][Next]_vars

TypeOK ==
    /\ pc \in {"argcheck", "open_r", "readlines", "scan", "open_w",
               "writelines", "print", "exited"}
    /\ i \in 0..Len(lines)
    /\ Len(hist) = i
    /\ skip \in BOOLEAN
    /\ depth \in Int
----------------------------------------------------------------------------
\* Vocabulary of the properties, defined on the text of the lines alone.

\* t occurs in the line as written (before any stripping).
OccursIn(t, line) ==
    \E k \in 1..Len(line) :
        /\ k + Len(t) - 1 <= Len(line)
        /\ \A j \in 1..Len(t) : line[k + j - 1] = t[j]

HasTarget(line) == \E t \in functions_to_remove : OccursIn(t, line)

RECURSIVE Occurrences(_, _)
Occurrences(line, c) ==
    IF line = <<>> THEN 0
    ELSE (IF Head(line) = c THEN 1 ELSE 0) + Occurrences(Tail(line), c)

NumOpen(line) == Occurrences(line, "{")
NumClose(line) == Occurrences(line, "}")

\* a is b with some elements left out (order kept, each element used once).
RECURSIVE IsSubseq(_, _)
IsSubseq(a, b) ==
    IF a = <<>> THEN TRUE
    ELSE IF b = <<>> THEN FALSE
    ELSE IF Head(a) = Head(b) THEN IsSubseq(Tail(a), Tail(b))
    ELSE IsSubseq(a, Tail(b))

\* Read off the history: the scan state before line k, and what became of it.
SkipBefore(k) == IF k = 1 THEN FALSE ELSE hist[k - 1].skip
OutBefore(k) == IF k = 1 THEN 0 ELSE hist[k - 1].out
Kept(k) == hist[k].out = OutBefore(k) + 1
Removed(k) == hist[k].out = OutBefore(k)

NoTargetAnywhere == \A k \in DOMAIN lines : ~HasTarget(lines[k])

Succeeded == pc = "exited" /\ exit_code = 0

----------------------------------------------------------------------------
\* C1: at every step of the scan the output is an ordered subsequence of
\* the lines consumed so far: every output line is an input line with its
\* text unchanged, no input line is used twice, and the order is kept.
C1_OutputIsSubsequence ==
    /\ IsSubseq(output_lines, SubSeq(lines, 1, i))
    /\ Len(output_lines) <= i

\* The scan is over, and a line was dropped between two retained ones.
C1_Witness ==
    /\ pc = "scan" /\ i = Len(lines)
    /\ \E a, b, c \in 1..i : a < b /\ b < c /\ Kept(a) /\ Removed(b) /\ Kept(c)
    /\ output_lines # <<>>

\* C2: when no input line contains a target string (the empty input too)
\* the scan never skips, the output is the input consumed so far, and a
\* successful run leaves the file exactly as it was read.
C2_NoMatchIsIdentity ==
    NoTargetAnywhere =>
        /\ skip = FALSE
        /\ \A k \in DOMAIN hist : hist[k].skip = FALSE
        /\ output_lines = SubSeq(lines, 1, i)
        /\ (pc \in {"open_w", "writelines", "print"} \/ Succeeded
                => output_lines = lines)
        /\ (pc = "print" \/ Succeeded => disk = lines)

\* A run over a target-free file with braces and indentation ended well.
C2_Witness ==
    /\ Succeeded
    /\ NoTargetAnywhere
    /\ Len(lines) >= 2
    /\ \E k \in DOMAIN lines : NumOpen(lines[k]) > 0
    /\ \E k \in DOMAIN lines : Head(lines[k]) \in Whitespace
    /\ disk = lines

\* C5: without a filename argument the program prints the usage message
\* and exits with a non-zero status, and never opens the file for reading
\* or for writing; the file is left as it was.
C5_MissingArgumentUsage ==
    /\ [](argc < 2 =>
             /\ pc \in {"argcheck", "exited"}
             /\ io = <<>>
             /\ error = NoError
             /\ (pc = "exited" =>
                    /\ exit_code # 0
                    /\ stdout = <<"Usage: python clean_engine.py <filename>">>))
    /\ [][argc < 2 => (disk' = disk /\ exists' = exists)]_vars

C5_Witness ==
    /\ argc < 2
    /\ pc = "exited"
    /\ exists /\ disk # <<>>

\* C6: when reading the input fails (the open for reading or the read
\* raises) the run ends in a failure state, the file is never opened for
\* writing, and its content is what it was.
ReadPhaseError == error.line \in {30, 31}

C6_ReadFailureLeavesFile ==
    /\ [](ReadPhaseError =>
             /\ pc = "exited"
             /\ exit_code # 0
             /\ \A k \in DOMAIN io : io[k] # "w")
    /\ [][(pc \in {"open_r", "readlines"} /\ error' # NoError)
              => (disk' = disk /\ exists' = exists /\ io' = io
                  /\ pc' = "exited" /\ exit_code' # 0)]_vars
    /\ [][ReadPhaseError => UNCHANGED vars]_vars

C6_Witness ==
    /\ ReadPhaseError
    /\ pc = "exited"
    /\ exists /\ disk # <<>>
    /\ io = <<"r">>
----------------------------------------------------------------------------
\* Brace matching on the text, character by character.

\* Position of the first `{` of a line that has one.
FirstOpenPos(line) ==
    CHOOSE p \in 1..Len(line) :
        line[p] = "{" /\ \A q \in 1..(p - 1) : line[q] # "{"

\* Reading ls from character p of line k with d braces open: the line on
\* which the count of open braces first returns to 0, or 0 if it never does.
RECURSIVE MatchFrom(_, _, _, _)
MatchFrom(ls, k, p, d) ==
    IF k > Len(ls) THEN 0
    ELSE IF p > Len(ls[k]) THEN MatchFrom(ls, k + 1, 1, d)
    ELSE LET c == ls[k][p]
             d2 == d + (IF c = "{" THEN 1 ELSE 0) - (IF c = "}" THEN 1 ELSE 0)
         IN  IF d2 = 0 THEN k ELSE MatchFrom(ls, k, p + 1, d2)

RECURSIVE NetBraces(_, _, _)
NetBraces(ls, a, b) ==
    IF a > b THEN 0
    ELSE NumOpen(ls[a]) - NumClose(ls[a]) + NetBraces(ls, a + 1, b)

\* The line holding the `}` that matches the `{` of signature line s.
FunctionEnd(ls, s) == MatchFrom(ls, s, FirstOpenPos(ls[s]) + 1, 1)

\* Lines s..e of ls are a targeted function: the signature line s holds a
\* target string and exactly one `{`, the `}` matching it is on line e, and
\* the braces of s..e balance.
IsFunction(ls, s, e) ==
    /\ HasTarget(ls[s])
    /\ NumOpen(ls[s]) = 1
    /\ e = FunctionEnd(ls, s)
    /\ NetBraces(ls, s, e) = 0

\* The line the loop is about to consume.
AtLine == pc = "scan" /\ i < Len(lines)
CurLine == lines[i + 1]

----------------------------------------------------------------------------
\* C4: when a removal begins at line s and the depth is non-zero after
\* every later line, every line from s on is absent from the output (the
\* output is drawn from the lines before s), the scan is still skipping,
\* and it ends without an error: it raises nothing and always has a step
\* to take until the loop is left for the write phase.
C4_UnbalancedRemovesToEnd ==
    /\ [](\A s \in 1..i :
             (HasTarget(lines[s]) /\ \A k \in (s + 1)..i : hist[k].depth # 0)
                 => /\ \A k \in s..i : Removed(k)
                    /\ skip = TRUE
                    /\ IsSubseq(output_lines, SubSeq(lines, 1, s - 1))
                    /\ Len(output_lines) <= s - 1
                    /\ (pc = "scan" => error = NoError))
    /\ [](pc = "scan" => ENABLED (ScanLine \/ ScanDone))
    /\ [][pc = "scan" => (pc' \in {"scan", "open_w"} /\ error' = NoError)]_vars

\* The input ended inside a removal that began after a retained line and
\* swallowed at least two more lines.
C4_Witness ==
    /\ pc = "open_w"
    /\ skip = TRUE
    /\ \E s \in 2..(Len(lines) - 2) :
          /\ HasTarget(lines[s])
          /\ ~SkipBefore(s)
          /\ \A k \in (s + 1)..Len(lines) : hist[k].depth # 0
          /\ \A k \in s..Len(lines) : Removed(k)
    /\ output_lines # <<>>

\* C7 (as claimed): a line that holds a target string and is met while
\* skipping is handled like any other skipped line: its brace delta is
\* added to the running depth (the depth is not reset to the line's own
\* balance) and the line is discarded.
C7_TargetWhileSkippingAddsDelta ==
    [][(AtLine /\ skip /\ HasTarget(CurLine))
          => /\ depth' = depth + NumOpen(CurLine) - NumClose(CurLine)
             /\ output_lines' = output_lines]_vars

\* C8: a line holding a target string, met while not skipping, sets skip,
\* sets depth to the line's own count of `{` minus its count of `}`, and is
\* not appended to the output.  Hence after a signature line without braces
\* a line with a lone `{` leaves the scan skipping at depth 1, and when the
\* lines up to the matching `}` hold no target string the scan skips
\* through that `}` and stops skipping there.
LoneOpen(line) ==
    NumOpen(line) = 1 /\ NumClose(line) = 0 /\ ~HasTarget(line)

C8_TriggerSetsOwnBalance ==
    /\ [][(AtLine /\ ~skip /\ HasTarget(CurLine))
             => /\ skip' = TRUE
                /\ depth' = NumOpen(CurLine) - NumClose(CurLine)
                /\ output_lines' = output_lines
                /\ i' = i + 1]_vars
    /\ [](\A s \in 1..(i - 1) :
             (/\ ~SkipBefore(s)
              /\ HasTarget(lines[s])
              /\ NumOpen(lines[s]) = 0 /\ NumClose(lines[s]) = 0
              /\ LoneOpen(lines[s + 1]))
                 => /\ hist[s].skip /\ hist[s].depth = 0
                    /\ hist[s + 1].skip /\ hist[s + 1].depth = 1
                    /\ Removed(s) /\ Removed(s + 1)
                    /\ LET e == MatchFrom(lines, s + 2, 1, 1)
                       IN  (/\ e # 0 /\ e <= i
                            /\ NetBraces(lines, s + 1, e) = 0
                            /\ \A k \in (s + 2)..e : ~HasTarget(lines[k]))
                               => /\ \A k \in s..e : Removed(k)
                                  /\ \A k \in s..(e - 1) : hist[k].skip
                                  /\ ~hist[e].skip)

\* A brace-less signature, a lone `{`, a body line and the matching `}`
\* were all removed and the scan stopped skipping on the `}`.
C8_Witness ==
    /\ pc = "scan" /\ i = Len(lines)
    /\ \E s \in 1..(i - 3) :
          /\ ~SkipBefore(s)
          /\ HasTarget(lines[s])
          /\ NumOpen(lines[s]) = 0 /\ NumClose(lines[s]) = 0
          /\ LoneOpen(lines[s + 1])
          /\ MatchFrom(lines, s + 2, 1, 1) = s + 3
          /\ \A k \in s..(s + 3) : Removed(k)
          /\ ~hist[s + 3].skip
          /\ hist[s + 2].skip

\* C9 (as claimed): while skipping every line is discarded, and skipping
\* ends on a line exactly when the depth plus that line's brace delta is 0.
C9_SkipEndsExactlyAtZero ==
    [][(AtLine /\ skip)
          => /\ output_lines' = output_lines
             /\ (skip' = FALSE
                    <=> depth + NumOpen(CurLine) - NumClose(CurLine) = 0)]_vars

\* C3 (as claimed): a targeted function met while not skipping, whose
\* signature line holds exactly one `{` and whose braces balance, is
\* removed exactly: every line from the signature line through the line of
\* the matching `}` is discarded, and no line more: the line after it, when
\* it holds no target string, is retained.
C3_BalancedRemovalIsExact ==
    \A s \in 1..i : \A e \in s..i :
        (~SkipBefore(s) /\ IsFunction(lines, s, e))
            => /\ \A k \in s..e : Removed(k)
               /\ (e + 1 <= i /\ ~HasTarget(lines[e + 1]) => Kept(e + 1))

\* The input from line k on is made of lines without a target string and of
\* targeted functions, each directly followed by the next piece.
RECURSIVE Decomposes(_, _)
Decomposes(ls, k) ==
    IF k > Len(ls) THEN TRUE
    ELSE IF ~HasTarget(ls[k]) THEN Decomposes(ls, k + 1)
    ELSE /\ NumOpen(ls[k]) = 1
         /\ LET e == FunctionEnd(ls, k)
            IN  e # 0 /\ IsFunction(ls, k, e) /\ Decomposes(ls, e + 1)

\* The lines of such an input that lie outside its targeted functions.
RECURSIVE OutsideFunctions(_, _)
OutsideFunctions(ls, k) ==
    IF k > Len(ls) THEN <<>>
    ELSE IF ~HasTarget(ls[k]) THEN <<ls[k]>> \o OutsideFunctions(ls, k + 1)
    ELSE OutsideFunctions(ls, FunctionEnd(ls, k) + 1)

\* C10 (as claimed): for an input made of untargeted lines and targeted
\* brace-balanced functions placed one after another, every function is
\* removed whole and the output of the scan is exactly the untargeted lines
\* outside the functions, in their order.
C10_BackToBackRemovals ==
    (pc = "scan" /\ i = Len(lines) /\ Decomposes(lines, 1))
        => output_lines = OutsideFunctions(lines, 1)

----------------------------------------------------------------------------
\* The file has been opened for writing.
WriteOpened == \E k \in DOMAIN io : io[k] = "w"

\* The statements before the open for writing of line 57.
BeforeWritePhase ==
    pc \in {"argcheck", "open_r", "readlines", "scan", "open_w"}

\* C11: the file is opened for writing only after it was opened for
\* reading, read in full, and every line consumed by the scan; the scan
\* changes nothing on disk, so in every state before the write phase the
\* file holds what it held at the start (which, once read, is `lines`),
\* while the output is held in output_lines.
C11_WriteOnlyAfterScan ==
    /\ [](WriteOpened =>
             /\ io = <<"r", "w">>
             /\ i = Len(lines)
             /\ Len(hist) = Len(lines)
             /\ pc \in {"writelines", "print", "exited"})
    /\ []((pc \in {"scan", "open_w"} /\ ~WriteOpened) =>
             /\ exists
             /\ disk = lines
             /\ io = <<"r">>)
    /\ [][BeforeWritePhase /\ pc' # "writelines"
             => (disk' = disk /\ exists' = exists)]_vars
    /\ [][pc' = "writelines" /\ pc # "writelines"
             => (pc = "open_w" /\ i = Len(lines) /\ disk = lines)]_vars

\* The write phase has begun on a file of which the scan dropped lines:
\* the file is truncated while the output waits in memory.
C11_Witness ==
    /\ pc = "writelines"
    /\ WriteOpened
    /\ disk = <<>>
    /\ output_lines # <<>>
    /\ Len(output_lines) < Len(lines)
    /\ Len(lines) = i

\* C12: a line that holds a target string is discarded and leaves the scan
\* skipping whatever its brace balance, so the line right after it is never
\* copied to the output.  After a trigger line of balance b (0 for a
\* function written on one line) and while no further target string is met,
\* the scan is skipping after line k exactly when b plus the accumulated
\* brace delta of the following lines has not been 0 after any of them.
C12_LineAfterTargetDropped ==
    \A s \in 1..i :
        HasTarget(lines[s]) =>
            /\ Removed(s)
            /\ hist[s].skip
            /\ hist[s].depth = NumOpen(lines[s]) - NumClose(lines[s])
            /\ (s + 1 <= i => Removed(s + 1))
            /\ \A k \in (s + 1)..i :
                  (\A j \in (s + 1)..k : ~HasTarget(lines[j])) =>
                      /\ hist[k].skip <=>
                            \A j \in (s + 1)..k : NetBraces(lines, s, j) # 0
                      /\ (\A j \in (s + 1)..(k - 1) : NetBraces(lines, s, j) # 0)
                            => Removed(k)

\* A targeted function on one line was met while not skipping; the line
\* after it, which holds no target string and no brace, was dropped, and
\* the line after that one was retained.
C12_Witness ==
    /\ pc = "scan"
    /\ \E s \in 1..(i - 2) :
          /\ ~SkipBefore(s)
          /\ HasTarget(lines[s])
          /\ NumOpen(lines[s]) = 1 /\ NumClose(lines[s]) = 1
          /\ ~HasTarget(lines[s + 1])
          /\ NumOpen(lines[s + 1]) = 0 /\ NumClose(lines[s + 1]) = 0
          /\ Removed(s + 1)
          /\ ~hist[s + 1].skip
          /\ Kept(s + 2)

\* C13: in every state no line of the accumulated output holds a target
\* string: a line is appended only when it matches no target and the scan
\* is not skipping; what a successful run leaves on disk holds none either.
C13_OutputHoldsNoTarget ==
    /\ \A k \in DOMAIN output_lines : ~HasTarget(output_lines[k])
    /\ \A k \in 1..i : Kept(k) => (~HasTarget(lines[k]) /\ ~SkipBefore(k))
    /\ (Succeeded => \A k \in DOMAIN disk : ~HasTarget(disk[k]))

\* A run over a file with a target line succeeded and left lines on disk.
C13_Witness ==
    /\ Succeeded
    /\ \E k \in DOMAIN lines : HasTarget(lines[k])
    /\ \E k \in DOMAIN lines : Kept(k) /\ NumOpen(lines[k]) > 0
    /\ disk = output_lines
    /\ disk # <<>>

\* C14: the scan is idempotent for every input: the output of the loop is
\* what the scan function gives for the input, and the scan function
\* applied to that output gives it back unchanged.
C14_ScanIsIdempotent ==
    (pc \in {"open_w", "writelines", "print"} \/ Succeeded) =>
        /\ output_lines = CleanLines(lines)
        /\ CleanLines(output_lines) = output_lines
        /\ CleanLines(CleanLines(lines)) = CleanLines(lines)

\* The scan dropped some lines of a file and retained others, and scanning
\* what it retained changes nothing.
C14_Witness ==
    /\ pc = "open_w"
    /\ output_lines # <<>>
    /\ Len(output_lines) < Len(lines)
    /\ \E k \in DOMAIN lines : HasTarget(lines[k])
    /\ CleanLines(output_lines) = output_lines
====
